---- MODULE Spec2Model ----
(***************************************************************************)
(* Verification model of the dysnomia client library:                      *)
(*   - Collection: the identity-keyed bounded store with FIFO eviction;    *)
(*   - Client.editChannelPosition / Client.editRolePosition: the           *)
(*     range-based position reorderer;                                     *)
(*   - Client.purgeChannel with BaseClient.deleteMessages: the             *)
(*     scan-and-purge pipeline, and deleteMessages called on its own;      *)
(*   - Client._formatAllowedMentions under Client.createMessage: the       *)
(*     allowed-mentions normalizer.                                        *)
(* Each specification below drives one component; the variables of the     *)
(* other components keep their initial value.                              *)
(***************************************************************************)
EXTENDS Integers, Sequences, FiniteSets, TLC

\* ------------------------------------------------------------------ bounds
MaxId == 2
MaxLimit == 2
\* shuffle and swapAt calls explored in one run
MaxMix == 1
\* siblings (channels or roles) of the guild, and their largest position
MaxSib == 4
MaxPos == 2
\* milliseconds the clock may advance while one purge or delete call runs
MaxClock == 1

\* ------------------------------------------------------- values of the code
\* obj.id is undefined or null
NoId == -1
\* obj.id is the empty string ""
EmptyId == -2
\* this.limit is undefined: the Collection was constructed without a limit
NoLimit == -1

\* identifiers a raw object may carry, and those a Map key may take
RawIds == {NoId, EmptyId} \cup (1..MaxId)
Data == {0}
\* the extra argument: omitted, a single (non-iterable) context object such
\* as a Guild or the Client, or an iterable (an array of arguments)
Extras == {"undefined", "object", "array"}

NoEnt == [id |-> NoId, inst |-> 0, data |-> 0]

VARIABLES
    limit,      \* Collection.limit
    store,      \* the Map: a sequence of [key, val] in iteration order
    nMix,       \* ghost: number of shuffle and swapAt calls so far
    shuffled,   \* ghost: shuffle has been called
    live,       \* ghost: identifiers inserted and not explicitly removed, by insertion
    op,         \* ghost: the last operation and its arguments
    ret,        \* ghost: what the last operation returned or threw
    evict,      \* ghost: keys the last operation evicted, with the oldest key then
    guildCached,     \* this.guilds holds the guild
    channelGuildMap, \* the channel identifiers this.channelGuildMap maps to the guild
    sibs,       \* guild.channels / guild.roles: [id, type, position] in iteration order
    call,       \* ghost: the last editChannelPosition / editRolePosition call
    res,        \* ghost: how that call ended, and the patch it submitted
    history,    \* the channel: how many fresh, borderline and old messages it holds
    now,        \* Date.now(), relative to the start of the call
    pc,         \* where the purgeChannel invocation stands
    purgeCall,  \* ghost: the options of the purgeChannel call
    purgeLimit, \* purgeChannel: let limit
    cursor,     \* purgeChannel.del: identifier of the last message fetched (_before)
    toDelete,   \* purgeChannel: const toDelete
    deleted,    \* purgeChannel: let deleted
    done,       \* purgeChannel: let done
    messageIDs, \* deleteMessages: the array it was called with
    more,       \* deleteMessages: the request in flight is followed by a recursive call
    purgeRes,   \* ghost: how the purgeChannel promise settled
    log,        \* ghost: the requests handed to the transport and the waits, in order
    pages,      \* ghost: per page fetched, the messages returned and the identifiers pushed
    accepted,   \* ghost: every identifier pushed to toDelete, in order
    examined,   \* ghost: messages that reached the filter test
    cutoffAt,   \* ghost: the message whose age ended the scan, 0 if none
    given,      \* ghost: the list a direct deleteMessages call was given
    delRes,     \* ghost: how the deleteMessages promise settled
    mention,    \* ghost: content.allowedMentions of the createMessage call
    formatted,  \* ghost: what _formatAllowedMentions did with it
    posted      \* ghost: requests createMessage handed to the transport

storeVars == <<limit, store, nMix, shuffled, live, op, ret, evict>>
reorderVars == <<guildCached, channelGuildMap, sibs, call, res>>
purgeVars == <<history, now, pc, purgeCall, purgeLimit, cursor, toDelete, deleted, done,
               messageIDs, more, purgeRes, log, pages, accepted, examined, cutoffAt>>
deleteVars == <<given, delRes>>
mentionVars == <<mention, formatted, posted>>
vars == <<storeVars, reorderVars, purgeVars, deleteVars, mentionVars>>

\* ------------------------------------------------------------ Map (built in)
Keys(st) == [i \in DOMAIN st |-> st[i].key]
KeySet(st) == {st[i].key : i \in DOMAIN st}
Has(st, k) == k \in KeySet(st)
\* Map.prototype.get: the value under k, NoEnt for undefined
Get(st, k) == IF Has(st, k) THEN (CHOOSE e \in {st[i] : i \in DOMAIN st} : e.key = k).val ELSE NoEnt
\* mutant: setting an existing key moves it to the end
MapSetMovesToEnd(st, k, v) ==
    Append(SelectSeq(st, LAMBDA e : e.key # k), [key |-> k, val |-> v])

\* Map.prototype.set: an existing key keeps its place, a new key goes last
MapSet(st, k, v) ==
    IF Has(st, k)
    THEN [i \in DOMAIN st |-> IF st[i].key = k THEN [key |-> k, val |-> v] ELSE st[i]]
    ELSE Append(st, [key |-> k, val |-> v])
\* Map.prototype.delete
MapDelete(st, k) == SelectSeq(st, LAMBDA e : e.key # k)

SeqRemove(s, k) == SelectSeq(s, LAMBDA x : x # k)
SeqSet(s) == {s[i] : i \in DOMAIN s}

\* ------------------------------------------------------------- Collection
\* what an operation returned (kind "entity" or "null") or threw, and whether
\* it constructed an instance of the base class
Returned(e, made) == [kind |-> "entity", ent |-> e, made |-> made]
ReturnedNull == [kind |-> "null", ent |-> NoEnt, made |-> FALSE]
Thrown(err) == [kind |-> err, ent |-> NoEnt, made |-> FALSE]
NoRet == [kind |-> "none", ent |-> NoEnt, made |-> FALSE]

\* obj instanceof this.baseObject || obj.constructor.name === this.baseObject.name
IsBase(obj) == obj.isInst

\* new this.baseObject(obj, ...extra): spreading undefined or a non-iterable
\* object in an argument list throws a TypeError before the constructor runs
SpreadThrows(extra) == extra \in {"undefined", "object"}

\* an object identity no entry of the Map refers to
FreshInst(st) ==
    CHOOSE n \in 1..(Len(st) + 1) :
        /\ \A i \in DOMAIN st : st[i].val.inst # n
        /\ \A m \in 1..(n - 1) : \E i \in DOMAIN st : st[i].val.inst = m

\* the entity the constructor builds from the raw representation
Materialize(obj, st) == [id |-> obj.ent.id, inst |-> FreshInst(st), data |-> obj.ent.data]

\* the entity's own update(): refreshes the fields of that instance in place,
\* wherever the instance is referenced
EntityUpdate(st, item, obj) ==
    [i \in DOMAIN st |->
        IF st[i].val.inst = item.inst
        THEN [key |-> st[i].key, val |-> [st[i].val EXCEPT !.data = obj.ent.data]]
        ELSE st[i]]

\* mutant: the bound is tested one too high
LimitExceededOffByOne(st, lim) == lim # NoLimit /\ lim # 0 /\ Len(st) > lim + 1

\* if(this.limit && this.size > this.limit)
LimitExceeded(st, lim) == lim # NoLimit /\ lim # 0 /\ Len(st) > lim

\* mutant: the newest key is deleted instead of the oldest
RECURSIVE EvictLoopNewest(_, _)
EvictLoopNewest(st, lim) ==
    IF Len(st) > lim THEN EvictLoopNewest(MapDelete(st, st[Len(st)].key), lim) ELSE st

\* const iter = this.keys(); while(this.size > this.limit) this.delete(iter.next().value)
RECURSIVE EvictLoop(_, _)
EvictLoop(st, lim) ==
    IF Len(st) > lim THEN EvictLoop(MapDelete(st, st[1].key), lim) ELSE st

Evict(st, lim) == IF LimitExceeded(st, lim) THEN EvictLoop(st, lim) ELSE st

\* mutant: the replace flag is read the wrong way round
KeepsExistingFlipped(existing, replace) == existing # NoEnt /\ replace

\* if(existing && !replace) return existing
KeepsExisting(existing, replace) == existing # NoEnt /\ ~replace

\* Collection.add(obj, extra, replace): the resulting Map, the Map right after
\* this.set (mid) and the outcome
AddResult(st, lim, obj, extra, replace) ==
    IF lim = 0
    THEN IF IsBase(obj)
         THEN [store |-> st, mid |-> st, ret |-> Returned(obj.ent, FALSE)]
         ELSE IF SpreadThrows(extra)
              THEN [store |-> st, mid |-> st, ret |-> Thrown("TypeError")]
              ELSE [store |-> st, mid |-> st, ret |-> Returned(Materialize(obj, st), TRUE)]
    ELSE IF obj.ent.id = NoId
    THEN [store |-> st, mid |-> st, ret |-> Thrown("MissingId")]
    ELSE IF KeepsExisting(Get(st, obj.ent.id), replace)
    THEN [store |-> st, mid |-> st, ret |-> Returned(Get(st, obj.ent.id), FALSE)]
    ELSE IF ~IsBase(obj) /\ SpreadThrows(extra)
    THEN [store |-> st, mid |-> st, ret |-> Thrown("TypeError")]
    ELSE LET e == IF IsBase(obj) THEN obj.ent ELSE Materialize(obj, st)
             mid == MapSet(st, e.id, e)
         IN [store |-> Evict(mid, lim), mid |-> mid, ret |-> Returned(e, ~IsBase(obj))]

\* if(!obj.id && obj.id !== 0)
UpdateRejectsId(id) == id \in {NoId, EmptyId}

\* Collection.update(obj, extra, replace)
UpdateResult(st, lim, obj, extra, replace) ==
    IF UpdateRejectsId(obj.ent.id)
    THEN [store |-> st, mid |-> st, ret |-> Thrown("MissingId")]
    ELSE IF Get(st, obj.ent.id) = NoEnt
    THEN AddResult(st, lim, obj, extra, replace)
    ELSE LET item == Get(st, obj.ent.id)
             st1 == EntityUpdate(st, item, obj)
         IN [store |-> st1, mid |-> st1, ret |-> Returned(Get(st1, obj.ent.id), FALSE)]

\* Collection.remove(obj)
RemoveResult(st, id) ==
    IF Get(st, id) = NoEnt
    THEN [store |-> st, ret |-> ReturnedNull]
    ELSE [store |-> MapDelete(st, id), ret |-> Returned(Get(st, id), FALSE)]

\* Collection.swapAt(idA, idB)
SwapAtResult(st, idA, idB) ==
    IF Get(st, idA) # NoEnt /\ Get(st, idB) # NoEnt
    THEN MapSet(MapSet(st, idA, Get(st, idB)), idB, Get(st, idA))
    ELSE st

\* Collection.shuffle(): the Fisher-Yates pass over Array.from(this), js[i]
\* being the index Math.floor(Math.random() * (i + 1)) drawn at step i
\* (1-based here), then clear() and set() of every pair in the new order
Swap(arr, i, j) == [arr EXCEPT ![i] = arr[j], ![j] = arr[i]]
RECURSIVE FisherYates(_, _, _)
FisherYates(arr, js, i) ==
    IF i <= 1 THEN arr ELSE FisherYates(Swap(arr, i, js[i]), js, i - 1)
ShuffleDraws(n) == {js \in [1..n -> 1..n] : \A i \in 1..n : js[i] <= i}
ShuffleResult(st, js) == FisherYates(st, js, Len(st))

\* ------------------------------------------------------- inputs and ghosts
\* the objects a caller may pass: a raw representation, an instance of the
\* base class constructed by the caller, or an instance the store holds
RawObjs == {[isInst |-> FALSE, ent |-> [id |-> i, inst |-> 0, data |-> d]] : i \in RawIds, d \in Data}
InstObjs(st) ==
    {[isInst |-> TRUE, ent |-> [id |-> i, inst |-> FreshInst(st), data |-> d]] : i \in RawIds, d \in Data}
    \cup {[isInst |-> TRUE, ent |-> st[i].val] : i \in DOMAIN st}
\* an instance is passed without extra: the constructor is not called for it
Calls(st) == (RawObjs \X Extras) \cup (InstObjs(st) \X {"undefined"})

NoOp == [name |-> "none", id |-> NoId, replace |-> FALSE, existed |-> FALSE]
OpOf(name, obj, replace, st) ==
    [name |-> name, id |-> obj.ent.id, replace |-> replace, existed |-> Has(st, obj.ent.id)]

\* the stored key that was inserted earliest, by the ghost order lv
Oldest(st, lv) == SelectSeq(lv, LAMBDA k : k \in KeySet(st))[1]

\* the keys the capacity rule deleted between mid and final, in the order of
\* their deletion, each with the key that was first in iteration order and the
\* key that was the earliest inserted at that moment
RECURSIVE EvictLog(_, _, _)
EvictLog(mid, final, lv) ==
    IF KeySet(mid) \subseteq KeySet(final)
    THEN << >>
    ELSE LET gone == {i \in DOMAIN mid : mid[i].key \notin KeySet(final)}
             first == CHOOSE i \in gone : \A j \in gone : i <= j
         IN <<[key |-> mid[first].key, first |-> mid[1].key, oldest |-> Oldest(mid, lv)]>>
            \o EvictLog(MapDelete(mid, mid[first].key), final, lv)

\* ghost: the insertion order after an upsert that went from st to mid
LiveAfter(lv, st, mid) ==
    IF KeySet(mid) \subseteq KeySet(st)
    THEN lv
    ELSE LET k == CHOOSE x \in KeySet(mid) \ KeySet(st) : TRUE
         IN Append(SeqRemove(lv, k), k)

\* ------------------------------------------------------------------ actions
StoreInit ==
    /\ limit \in {NoLimit} \cup (0..MaxLimit)
    /\ store = << >>
    /\ nMix = 0
    /\ shuffled = FALSE
    /\ live = << >>
    /\ op = NoOp
    /\ ret = NoRet
    /\ evict = << >>

Upsert(name, obj, replace, r) ==
    /\ store' = r.store
    /\ ret' = r.ret
    /\ live' = LiveAfter(live, store, r.mid)
    /\ evict' = EvictLog(r.mid, r.store, LiveAfter(live, store, r.mid))
    /\ op' = OpOf(name, obj, replace, store)
    /\ UNCHANGED <<limit, nMix, shuffled, reorderVars, purgeVars, deleteVars, mentionVars>>

Add ==
    \E c \in Calls(store), replace \in BOOLEAN :
        Upsert("add", c[1], replace, AddResult(store, limit, c[1], c[2], replace))

Update ==
    \E c \in Calls(store), replace \in BOOLEAN :
        Upsert("update", c[1], replace, UpdateResult(store, limit, c[1], c[2], replace))

Remove ==
    \E id \in RawIds :
        /\ store' = RemoveResult(store, id).store
        /\ ret' = RemoveResult(store, id).ret
        /\ live' = SeqRemove(live, id)
        /\ evict' = << >>
        /\ op' = [NoOp EXCEPT !.name = "remove", !.id = id, !.existed = Has(store, id)]
        /\ UNCHANGED <<limit, nMix, shuffled, reorderVars, purgeVars, deleteVars, mentionVars>>

Shuffle ==
    \E js \in ShuffleDraws(Len(store)) :
        /\ nMix < MaxMix
        /\ nMix' = nMix + 1
        /\ store' = ShuffleResult(store, js)
        /\ ret' = NoRet
        /\ evict' = << >>
        /\ op' = [NoOp EXCEPT !.name = "shuffle"]
        /\ shuffled' = TRUE
        /\ UNCHANGED <<limit, live, reorderVars, purgeVars, deleteVars, mentionVars>>

SwapAt ==
    \E idA \in RawIds, idB \in RawIds :
        /\ nMix < MaxMix
        /\ nMix' = nMix + 1
        /\ store' = SwapAtResult(store, idA, idB)
        /\ ret' = NoRet
        /\ evict' = << >>
        /\ op' = [NoOp EXCEPT !.name = "swapAt", !.id = idA,
                              !.existed = Has(store, idA) /\ Has(store, idB)]
        /\ UNCHANGED <<limit, live, shuffled, reorderVars, purgeVars, deleteVars, mentionVars>>

\* ------------------------------------------------------- position reorderer
\* the guild, whose identifier is also that of its default role
GuildId == 1
SibIds == 1..(MaxSib + 1)
Types == {0, 1}
Positions == 0..MaxPos

NoCall == [fn |-> "none", id |-> 0, position |-> 0]
NoRes == [kind |-> "none", err |-> "", patch |-> << >>, requests |-> 0]
\* Promise.resolve(), Promise.reject(new Error(...)), a synchronous throw, and
\* this.requestHandler.request("PATCH", ..., body)
Resolved == [kind |-> "resolved", err |-> "", patch |-> << >>, requests |-> 0]
Rejected(err) == [kind |-> "rejected", err |-> err, patch |-> << >>, requests |-> 0]
Threw(err) == [kind |-> "threw", err |-> err, patch |-> << >>, requests |-> 0]
Requested(body) == [kind |-> "requested", err |-> "", patch |-> body, requests |-> 1]

\* Collection.get(id) on the sibling collection: its index, 0 for undefined
SibIndex(ss, id) ==
    IF \E i \in DOMAIN ss : ss[i].id = id
    THEN CHOOSE i \in DOMAIN ss : ss[i].id = id
    ELSE 0
Known(ss, id) == SibIndex(ss, id) # 0

\* Array.prototype.sort((a, b) => a.position - b.position): stable, by
\* insertion of each element after the last one not above it
RECURSIVE InsertByPosition(_, _)
InsertByPosition(sorted, x) ==
    IF sorted = << >> THEN <<x>>
    ELSE IF sorted[Len(sorted)].position <= x.position THEN Append(sorted, x)
    ELSE Append(InsertByPosition(SubSeq(sorted, 1, Len(sorted) - 1), x), sorted[Len(sorted)])
RECURSIVE SortByPosition(_)
SortByPosition(arr) ==
    IF arr = << >> THEN << >>
    ELSE InsertByPosition(SortByPosition(SubSeq(arr, 1, Len(arr) - 1)), arr[Len(arr)])

MinOf(a, b) == IF a <= b THEN a ELSE b
MaxOf(a, b) == IF a >= b THEN a ELSE b

\* a mutation of ChannelInRange: the channel type is not compared
ChannelInRangeAnyType(chan, channel, min, max) ==
    /\ min <= chan.position
    /\ chan.position <= max
    /\ chan.id # channel.id
\* the channels the filter of editChannelPosition keeps
ChannelInRange(chan, channel, min, max) ==
    /\ chan.type = channel.type
    /\ min <= chan.position
    /\ chan.position <= max
    /\ chan.id # channel.id
\* the roles the filter of editRolePosition keeps
RoleInRange(r, role, min, max) ==
    /\ min <= r.position
    /\ r.position <= max
    /\ r.id # role.id

\* a mutation of SamePosition: the equal position is never noticed
SamePositionNever(entity, position) == FALSE
\* entity.position === position
SamePosition(entity, position) == entity.position = position

\* a mutation of Reinsert: the moved entity is always appended
ReinsertAlwaysPush(list, moved, position) == Append(list, moved)
\* push when moving to a higher position, unshift otherwise
Reinsert(list, moved, position) ==
    IF position > moved.position THEN Append(list, moved) ELSE <<moved>> \o list

\* list.map((x, index) => ({id: x.id, position: index + min}))
PatchOf(list, min) == [i \in DOMAIN list |-> [id |-> list[i].id, position |-> (i - 1) + min]]

\* this.guilds.get(this.channelGuildMap[channelID]) is a guild
ChannelGuildResolves(cached, map, channelID) == cached /\ channelID \in map

\* Client.editChannelPosition(channelID, position)
EditChannelPositionResult(cached, map, ss, channelID, position) ==
    IF ~ChannelGuildResolves(cached, map, channelID) THEN Threw("TypeError")
    ELSE IF ~Known(ss, channelID) THEN Rejected("NotFound")
    ELSE LET channel == ss[SibIndex(ss, channelID)]
             min == MinOf(position, channel.position)
             max == MaxOf(position, channel.position)
         IN IF SamePosition(channel, position) THEN Resolved
            ELSE Requested(PatchOf(Reinsert(
                    SortByPosition(SelectSeq(ss, LAMBDA c : ChannelInRange(c, channel, min, max))),
                    channel, position), min))

\* Client.editRolePosition(guildID, roleID, position)
EditRolePositionResult(cached, ss, guildID, roleID, position) ==
    IF guildID = roleID THEN Rejected("DefaultRole")
    ELSE IF ~cached THEN Threw("TypeError")
    ELSE IF ~Known(ss, roleID) THEN Rejected("NotFound")
    ELSE LET role == ss[SibIndex(ss, roleID)]
             min == MinOf(position, role.position)
             max == MaxOf(position, role.position)
         IN IF SamePosition(role, position) THEN Resolved
            ELSE Requested(PatchOf(Reinsert(
                    SortByPosition(SelectSeq(ss, LAMBDA r : RoleInRange(r, role, min, max))),
                    role, position), min))

\* the sibling collections of a cached guild: the siblings 1..n in iteration
\* order, any type and position each (gaps and duplicates allowed)
SibLists ==
    UNION {{[i \in 1..n |-> [id |-> i, type |-> f[i].type, position |-> f[i].position]] :
                f \in [1..n -> [type : Types, position : Positions]]} : n \in 0..MaxSib}
IdsOf(ss) == {ss[i].id : i \in DOMAIN ss}

ReorderIdle ==
    /\ guildCached = FALSE
    /\ channelGuildMap = {}
    /\ sibs = << >>
    /\ call = NoCall
    /\ res = NoRes

StoreIdle ==
    /\ limit = NoLimit
    /\ store = << >>
    /\ nMix = 0
    /\ shuffled = FALSE
    /\ live = << >>
    /\ op = NoOp
    /\ ret = NoRet
    /\ evict = << >>

\* a guild that is cached with its siblings, or not cached; channelGuildMap
\* maps the cached channels and possibly one identifier that is in no
\* collection any more
ReorderInit ==
    /\ guildCached \in BOOLEAN
    /\ sibs \in SibLists
    /\ ~guildCached => sibs = << >>
    /\ channelGuildMap \in {IdsOf(sibs), IdsOf(sibs) \cup {MaxSib + 1}}
    /\ call = NoCall
    /\ res = NoRes

EditChannelPosition ==
    \E channelID \in SibIds, position \in Positions :
        /\ call' = [fn |-> "editChannelPosition", id |-> channelID, position |-> position]
        /\ res' = EditChannelPositionResult(guildCached, channelGuildMap, sibs, channelID, position)
        /\ UNCHANGED <<guildCached, channelGuildMap, sibs, storeVars, purgeVars, deleteVars, mentionVars>>

EditRolePosition ==
    \E roleID \in SibIds, position \in Positions :
        /\ call' = [fn |-> "editRolePosition", id |-> roleID, position |-> position]
        /\ res' = EditRolePositionResult(guildCached, sibs, GuildId, roleID, position)
        /\ UNCHANGED <<guildCached, channelGuildMap, sibs, storeVars, purgeVars, deleteVars, mentionVars>>

\* ------------------------------------------------------ scan-and-purge
\* getMessages(channelID, {limit: 100, ...})
PageSize == 100
\* toDelete.length >= 100 && toDelete.splice(0, 100)
DrainSize == 100
\* messageIDs.length > 100, messageIDs.splice(0, 100)
BatchSize == 100
\* 14d * 24h * 60m * 60s * 1000ms
Cutoff == 1209600000
\* sleep(1000) after a batch, sleep(250) while polling
DrainWait == 1000
PollWait == 250
\* options.limit for no limit
Unlimited == -1

\* the channels purged: messages are numbered 1.. from the newest; the first
\* `fresh` are far younger than the cutoff, the next `border` are exactly
\* Cutoff milliseconds old when the call starts, the last `old` are older
FreshCounts == {0, 1, 2, 99, 100, 101, 200, 250, 500}
BorderCounts == {0, 2}
OldCounts == {0, 1, 101}
Histories == [fresh : FreshCounts, border : BorderCounts, old : OldCounts]
HistoryLen(h) == h.fresh + h.border + h.old
\* message.timestamp, which is also the time in the high bits of message.id
Timestamp(h, id) ==
    IF id <= h.fresh THEN -1
    ELSE IF id <= h.fresh + h.border THEN -Cutoff
    ELSE -Cutoff - 1
\* message.timestamp < Date.now() - 1209600000, and equally
\* messageID < (Date.now() - 1421280000000) * 4194304
TooOld(h, id, t) == Timestamp(h, id) < t - Cutoff

\* options.limit and options.filter of the calls explored
Limits == {Unlimited, 0, 1, 2, 100, 150, 250}
Filters == {"none", "rejectAll", "odd"}
\* a mutation of Accepts: the filter is not consulted
AcceptsAlways(filter, id) == TRUE
\* !options.filter || options.filter(message)
Accepts(filter, id) ==
    CASE filter = "none" -> TRUE
      [] filter = "rejectAll" -> FALSE
      [] filter = "odd" -> id % 2 = 1

\* a mutation of LimitExhausted: the limit never stops the scan
LimitExhaustedNever(lim) == FALSE
\* limit !== -1 && limit <= 0
LimitExhausted(lim) == lim # Unlimited /\ lim <= 0

\* the page the transport returns for {limit: 100, before: cur}
Range(a, b) == [i \in 1..(b - a + 1) |-> a + i - 1]
PageAfter(h, cur) == Range(cur + 1, MinOf(cur + PageSize, HistoryLen(h)))

\* a mutation of PageIsShort: a full page ends the scan too
PageIsShortOrFull(page) == Len(page) <= PageSize
\* messages.length < 100
PageIsShort(page) == Len(page) < PageSize

\* the for loop of del over one page. Every iteration that runs to its end
\* takes one from a limited limit, so iteration i starts with lim - (i - 1):
\* it breaks when that is exhausted, and otherwise returns when its message is
\* too old
LoopBreaksAt(lim, i) == LimitExhausted(IF lim = Unlimited THEN lim ELSE lim - (i - 1))
LoopEndsAt(h, page, lim, t, i) == LoopBreaksAt(lim, i) \/ TooOld(h, page[i], t)
\* the iterations that run to their end are those before the first that ends
\* the loop; each pushes its message if the filter accepts it
\* (k and st below are bound over one-element sets, which has them computed
\* once wherever the operators are evaluated)
TheOnly(S) == CHOOSE x \in S : TRUE
ScanLoop(h, page, buf, lim, t, filter) ==
    LET ends == {i \in DOMAIN page : LoopEndsAt(h, page, lim, t, i)}
    IN TheOnly({[toDelete |-> buf \o SelectSeq(SubSeq(page, 1, k), LAMBDA id : Accepts(filter, id)),
                 limit |-> IF lim = Unlimited THEN lim ELSE lim - k,
                 examined |-> k,
                 cutoffAt |-> IF k < Len(page) /\ ~LoopBreaksAt(lim, k + 1) THEN page[k + 1] ELSE 0] :
                k \in {IF ends = {} THEN Len(page)
                       ELSE (CHOOSE i \in ends : \A j \in ends : i <= j) - 1}})

\* a mutation of ScanDone: meeting a message that is too old does not end the scan
ScanDoneIgnoresAge(st, page) == LimitExhausted(st.limit) \/ PageIsShort(page)
\* done = true: by the return inside the loop, or by the test after it
ScanDone(st, page) == st.cutoffAt # 0 \/ LimitExhausted(st.limit) \/ PageIsShort(page)

\* del once its page has arrived: the buffer, the limit and whether the scan is done
ScanPage(h, page, buf, lim, t, filter) ==
    IF LimitExhausted(lim)
    THEN [toDelete |-> buf, limit |-> lim, examined |-> 0, cutoffAt |-> 0, done |-> TRUE]
    ELSE TheOnly({[toDelete |-> st.toDelete, limit |-> st.limit, examined |-> st.examined,
                   cutoffAt |-> st.cutoffAt,
                   done |-> ScanDone(st, page)] :
                  st \in {ScanLoop(h, page, buf, lim, t, filter)}})

\* a mutation of Batch: nothing is split off
BatchOfAll(list) == list
\* a mutation of HasStale: only the batch about to be sent is examined
HasStaleInBatch(h, list, t) == \E i \in DOMAIN list : i <= BatchSize /\ TooOld(h, list[i], t)
\* a mutation of Rest: the element after the batch is dropped too
RestSkipsOne(list) == SubSeq(list, BatchSize + 2, Len(list))
\* what messageIDs.splice(0, 100) returns, and what it leaves in the array
Batch(list) == SubSeq(list, 1, MinOf(BatchSize, Len(list)))
Rest(list) == SubSeq(list, BatchSize + 1, Len(list))

\* messageIDs.find((messageID) => messageID < oldestAllowedSnowflake)
HasStale(h, list, t) == \E i \in DOMAIN list : TooOld(h, list[i], t)

\* deleteMessages up to its request: what it does, what it sends, and the
\* array as it leaves it
DeleteMessagesResult(h, list, t) ==
    IF Len(list) = 0 THEN [kind |-> "resolved", sent |-> << >>, rest |-> list, more |-> FALSE]
    ELSE IF Len(list) = 1 THEN [kind |-> "single", sent |-> list, rest |-> list, more |-> FALSE]
    ELSE IF HasStale(h, list, t) THEN [kind |-> "stale", sent |-> << >>, rest |-> list, more |-> FALSE]
    ELSE IF Len(list) > BatchSize
         THEN [kind |-> "bulk", sent |-> Batch(list), rest |-> Rest(list), more |-> TRUE]
         ELSE [kind |-> "bulk", sent |-> list, rest |-> list, more |-> FALSE]

\* the events of the log
GetEvent(buffered) == [type |-> "GET", ids |-> << >>, n |-> buffered]
DeleteEvent(kind, ids) == [type |-> IF kind = "single" THEN "DELETE" ELSE "BULK", ids |-> ids, n |-> Len(ids)]
WaitEvent(ms) == [type |-> "sleep", ids |-> << >>, n |-> ms]
\* the errors the transport may reject a request with
TransportErrors == {"HTTP 403", "HTTP 500"}
RejectEvent(err) == [type |-> err, ids |-> << >>, n |-> 0]

NoPurge == [limit |-> 0, filter |-> "none"]
Pending == [kind |-> "pending", value |-> 0, err |-> ""]
PurgeResolved(n) == [kind |-> "resolved", value |-> n, err |-> ""]
PurgeRejected(err) == [kind |-> "rejected", value |-> 0, err |-> err]

\* a mutation of Rethrown: the failure is swallowed and the count reported
RethrownAsCount(err, count) == PurgeResolved(count)
\* a rejected await inside purgeChannel rejects its promise with that error
Rethrown(err, count) == PurgeRejected(err)

\* Date.now() when the next step runs
Clock == {t \in now..(now + 1) : t <= MaxClock}

PurgeIdle ==
    /\ history = [fresh |-> 0, border |-> 0, old |-> 0]
    /\ now = 0
    /\ pc = "idle"
    /\ purgeCall = NoPurge
    /\ purgeLimit = 0
    /\ cursor = 0
    /\ toDelete = << >>
    /\ deleted = 0
    /\ done = FALSE
    /\ messageIDs = << >>
    /\ more = FALSE
    /\ purgeRes = Pending
    /\ log = << >>
    /\ pages = << >>
    /\ accepted = << >>
    /\ examined = 0
    /\ cutoffAt = 0

PurgeInit ==
    /\ history \in Histories
    /\ now = 0
    /\ pc = "idle"
    /\ purgeCall = NoPurge
    /\ purgeLimit = 0
    /\ cursor = 0
    /\ toDelete = << >>
    /\ deleted = 0
    /\ done = FALSE
    /\ messageIDs = << >>
    /\ more = FALSE
    /\ purgeRes = Pending
    /\ log = << >>
    /\ pages = << >>
    /\ accepted = << >>
    /\ examined = 0
    /\ cutoffAt = 0

\* purgeChannel(channelID, {limit, filter}) up to the first page request
PurgeChannel ==
    \E lim \in Limits, filter \in Filters :
        /\ pc = "idle"
        /\ purgeCall' = [limit |-> lim, filter |-> filter]
        /\ purgeLimit' = lim
        /\ IF LimitExhausted(lim)
           THEN /\ pc' = "done"
                /\ purgeRes' = PurgeResolved(0)
                /\ log' = log
           ELSE /\ pc' = "fetching"
                /\ purgeRes' = Pending
                /\ log' = Append(log, GetEvent(0))
        /\ UNCHANGED <<history, now, cursor, toDelete, deleted, done, messageIDs, more,
                       pages, accepted, examined, cutoffAt, storeVars, reorderVars,
                       deleteVars, mentionVars>>

\* the transport answers the page request: del scans the page and either
\* finishes the scan or requests the next page
PageFetched ==
    \E t \in Clock :
        /\ pc = "fetching"
        /\ now' = t
        /\ \E page \in {PageAfter(history, cursor)} :
           \E r \in {ScanPage(history, page, toDelete, purgeLimit, t, purgeCall.filter)} :
              /\ toDelete' = r.toDelete
              /\ purgeLimit' = r.limit
              /\ done' = r.done
              /\ examined' = examined + r.examined
              /\ cutoffAt' = IF cutoffAt # 0 THEN cutoffAt ELSE r.cutoffAt
              /\ accepted' = accepted \o SubSeq(r.toDelete, Len(toDelete) + 1, Len(r.toDelete))
              /\ pages' = Append(pages, [returned |-> Len(page),
                                         pushed |-> Len(r.toDelete) - Len(toDelete)])
              /\ IF r.done
                 THEN /\ pc' = "check"
                      /\ UNCHANGED <<cursor, log>>
                 ELSE /\ pc' = "fetching"
                      /\ cursor' = page[Len(page)]
                      /\ log' = Append(log, GetEvent(Len(r.toDelete)))
        /\ UNCHANGED <<history, purgeCall, deleted, messageIDs, more, purgeRes,
                       storeVars, reorderVars,
                       deleteVars, mentionVars>>

\* the transport rejects the page request: the await in del throws
PageFailed ==
    \E err \in TransportErrors :
        /\ pc = "fetching"
        /\ pc' = "failed"
        /\ purgeRes' = Rethrown(err, deleted)
        /\ log' = Append(log, RejectEvent(err))
        /\ UNCHANGED <<history, now, purgeCall, purgeLimit, cursor, toDelete, deleted, done,
                       messageIDs, more, pages, accepted, examined, cutoffAt,
                       storeVars, reorderVars, deleteVars, mentionVars>>

\* a mutation of AfterBatch: checkToDelete arms its timer again whether or not
\* the scan is done
AfterBatchKeepsWaiting(isDone) == "waitDrain"
\* checkToDelete once deleteMessages has resolved
AfterBatch(isDone) == IF isDone THEN "done" ELSE "waitDrain"

\* checkToDelete, entered after the scan or after a wait, up to its first
\* request or wait
CheckToDelete ==
    \E t \in Clock :
        /\ pc \in {"check", "waitDrain", "waitPoll"}
        /\ now' = t
        /\ IF done \/ Len(toDelete) >= DrainSize
           THEN \E ids \in {IF done THEN toDelete ELSE SubSeq(toDelete, 1, DrainSize)},
                   left \in {IF done THEN toDelete ELSE SubSeq(toDelete, DrainSize + 1, Len(toDelete))} :
                \E d \in {DeleteMessagesResult(history, ids, t)} :
                   /\ deleted' = deleted + Len(ids)
                   /\ messageIDs' = d.rest
                   /\ toDelete' = IF done THEN d.rest ELSE left
                   /\ more' = d.more
                   /\ CASE d.kind = "resolved" ->
                             /\ pc' = AfterBatch(done)
                             /\ purgeRes' = IF done THEN PurgeResolved(deleted + Len(ids)) ELSE purgeRes
                             /\ log' = IF done THEN log ELSE Append(log, WaitEvent(DrainWait))
                        [] d.kind = "stale" ->
                             /\ pc' = "failed"
                             /\ purgeRes' = PurgeRejected("stale")
                             /\ log' = log
                        [] OTHER ->
                             /\ pc' = "deleting"
                             /\ purgeRes' = purgeRes
                             /\ log' = Append(log, DeleteEvent(d.kind, d.sent))
           ELSE /\ pc' = "waitPoll"
                /\ log' = Append(log, WaitEvent(PollWait))
                /\ UNCHANGED <<deleted, messageIDs, toDelete, more, purgeRes>>
        /\ UNCHANGED <<history, purgeCall, purgeLimit, cursor, done, pages, accepted,
                       examined, cutoffAt, storeVars, reorderVars,
                       deleteVars, mentionVars>>

\* the transport answers the delete request: deleteMessages recurses on what
\* is left of the array, or resolves and checkToDelete goes on
DeleteAnswered ==
    \E t \in Clock :
        /\ pc = "deleting"
        /\ now' = t
        /\ \E d \in {IF more THEN DeleteMessagesResult(history, messageIDs, t)
                    ELSE [kind |-> "resolved", sent |-> << >>, rest |-> messageIDs, more |-> FALSE]} :
              /\ messageIDs' = d.rest
              /\ toDelete' = IF done THEN d.rest ELSE toDelete
              /\ more' = d.more
              /\ CASE d.kind = "resolved" ->
                        /\ pc' = AfterBatch(done)
                        /\ purgeRes' = IF done THEN PurgeResolved(deleted) ELSE purgeRes
                        /\ log' = IF done THEN log ELSE Append(log, WaitEvent(DrainWait))
                   [] d.kind = "stale" ->
                        /\ pc' = "failed"
                        /\ purgeRes' = PurgeRejected("stale")
                        /\ log' = log
                   [] OTHER ->
                        /\ pc' = "deleting"
                        /\ purgeRes' = purgeRes
                        /\ log' = Append(log, DeleteEvent(d.kind, d.sent))
        /\ UNCHANGED <<history, purgeCall, purgeLimit, cursor, deleted, done, pages, accepted,
                       examined, cutoffAt, storeVars, reorderVars,
                       deleteVars, mentionVars>>

\* the transport rejects the delete request
DeleteFailed ==
    \E err \in TransportErrors :
        /\ pc = "deleting"
        /\ pc' = "failed"
        /\ purgeRes' = Rethrown(err, deleted)
        /\ log' = Append(log, RejectEvent(err))
        /\ UNCHANGED <<history, now, purgeCall, purgeLimit, cursor, toDelete, deleted, done,
                       messageIDs, more, pages, accepted, examined, cutoffAt,
                       storeVars, reorderVars, deleteVars, mentionVars>>

\* ------------------------------------------------- deleteMessages, called directly
\* lengths of the lists given, and which end of the history they are taken
\* from, in which order
ListLengths == {0, 1, 2, 100, 101, 102, 201}
Reverse(list) == [i \in DOMAIN list |-> list[Len(list) + 1 - i]]
ListsOf(h) ==
    UNION {{Range(1, len), Reverse(Range(1, len)),
            Range(HistoryLen(h) - len + 1, HistoryLen(h)),
            Reverse(Range(HistoryLen(h) - len + 1, HistoryLen(h)))} :
                len \in {l \in ListLengths : l <= HistoryLen(h)}}

DelPending == [kind |-> "pending", err |-> ""]
DelResolved == [kind |-> "resolved", err |-> ""]
DelRejected(err) == [kind |-> "rejected", err |-> err]

DeleteIdle ==
    /\ given = << >>
    /\ delRes = DelPending

\* deleteMessages(channelID, messageIDs) up to its first request
DeleteMessages ==
    \E list \in ListsOf(history), t \in Clock :
        /\ pc = "idle"
        /\ given' = list
        /\ now' = t
        /\ LET d == DeleteMessagesResult(history, list, t)
           IN /\ messageIDs' = d.rest
              /\ more' = d.more
              /\ CASE d.kind = "resolved" ->
                        /\ pc' = "settled"
                        /\ delRes' = DelResolved
                        /\ log' = log
                   [] d.kind = "stale" ->
                        /\ pc' = "settled"
                        /\ delRes' = DelRejected("stale")
                        /\ log' = log
                   [] OTHER ->
                        /\ pc' = "sending"
                        /\ delRes' = DelPending
                        /\ log' = Append(log, DeleteEvent(d.kind, d.sent))
        /\ UNCHANGED <<history, purgeCall, purgeLimit, cursor, toDelete, deleted, done,
                       purgeRes, pages, accepted, examined, cutoffAt,
                       storeVars, reorderVars, mentionVars>>

\* the transport answers the request: the recursive call on what is left of
\* the array, or the promise resolves
DeleteRequestAnswered ==
    \E t \in Clock :
        /\ pc = "sending"
        /\ now' = t
        /\ LET d == IF more THEN DeleteMessagesResult(history, messageIDs, t)
                    ELSE [kind |-> "resolved", sent |-> << >>, rest |-> messageIDs, more |-> FALSE]
           IN /\ messageIDs' = d.rest
              /\ more' = d.more
              /\ CASE d.kind = "resolved" ->
                        /\ pc' = "settled"
                        /\ delRes' = DelResolved
                        /\ log' = log
                   [] d.kind = "stale" ->
                        /\ pc' = "settled"
                        /\ delRes' = DelRejected("stale")
                        /\ log' = log
                   [] OTHER ->
                        /\ pc' = "sending"
                        /\ delRes' = DelPending
                        /\ log' = Append(log, DeleteEvent(d.kind, d.sent))
        /\ UNCHANGED <<history, purgeCall, purgeLimit, cursor, toDelete, deleted, done,
                       purgeRes, pages, accepted, examined, cutoffAt, given,
                       storeVars, reorderVars, mentionVars>>

\* the transport rejects the request
DeleteRequestFailed ==
    \E err \in TransportErrors :
        /\ pc = "sending"
        /\ pc' = "settled"
        /\ delRes' = DelRejected(err)
        /\ log' = Append(log, RejectEvent(err))
        /\ UNCHANGED <<history, now, purgeCall, purgeLimit, cursor, toDelete, deleted, done,
                       messageIDs, more, purgeRes, pages, accepted, examined, cutoffAt, given,
                       storeVars, reorderVars, mentionVars>>

\* ------------------------------------------------ allowed-mentions normalizer
\* allowed.roles.length > 100, allowed.users.length > 100
MentionLimit == 100
\* the values of a property: absent, false, true, another truthy value, or an
\* array of that many identifiers
ListSizes == {0, 3, 100, 101}
Scalars == {"undefined", "false", "true", "truthy"}
Scalar(tag) == [tag |-> tag, items |-> << >>]
ArrayOf(n) == [tag |-> "array", items |-> Range(1, n)]
MentionValues == {Scalar(tag) : tag \in Scalars} \cup {ArrayOf(n) : n \in ListSizes}
\* the allowedMentions objects passed, and none at all
NoMentions == [everyone |-> "none", roles |-> Scalar("undefined"), users |-> Scalar("undefined"),
               repliedUser |-> "undefined"]
MentionInputs ==
    {NoMentions} \cup
    [everyone : Scalars, roles : MentionValues, users : MentionValues,
     repliedUser : {"undefined", "false", "true"}]

\* if(allowed.everyone)
Truthy(tag) == tag \in {"true", "truthy"}
\* a mutation of IsExactlyTrue: any truthy value allows the whole category
IsTruthyValue(v) == Truthy(v.tag)
\* allowed.roles === true
IsExactlyTrue(v) == v.tag = "true"
\* Array.isArray(allowed.roles)
IsArray(v) == v.tag = "array"
\* a mutation of ExceedsLimit: a list of exactly 100 is refused too
ExceedsLimitOffByOne(list) == Len(list) >= MentionLimit
\* allowed.roles.length > 100
ExceedsLimit(list) == Len(list) > MentionLimit

NotFormatted ==
    [kind |-> "none", err |-> "", parse |-> << >>, hasRoles |-> FALSE, roles |-> << >>,
     hasUsers |-> FALSE, users |-> << >>, replied_user |-> "undefined"]
\* return this.options.allowedMentions
ConfiguredDefault == [NotFormatted EXCEPT !.kind = "default"]
MentionError(err) == [NotFormatted EXCEPT !.kind = "threw", !.err = err]

\* Client._formatAllowedMentions(allowed)
FormatAllowedMentions(allowed) ==
    IF allowed = NoMentions THEN ConfiguredDefault
    ELSE IF ~IsExactlyTrue(allowed.roles) /\ IsArray(allowed.roles) /\ ExceedsLimit(allowed.roles.items)
    THEN MentionError("Allowed role mentions cannot exceed 100.")
    ELSE IF ~IsExactlyTrue(allowed.users) /\ IsArray(allowed.users) /\ ExceedsLimit(allowed.users.items)
    THEN MentionError("Allowed user mentions cannot exceed 100.")
    ELSE [kind |-> "returned",
          err |-> "",
          parse |-> (IF Truthy(allowed.everyone) THEN <<"everyone">> ELSE << >>)
                    \o (IF IsExactlyTrue(allowed.roles) THEN <<"roles">> ELSE << >>)
                    \o (IF IsExactlyTrue(allowed.users) THEN <<"users">> ELSE << >>),
          hasRoles |-> ~IsExactlyTrue(allowed.roles) /\ IsArray(allowed.roles),
          roles |-> IF ~IsExactlyTrue(allowed.roles) /\ IsArray(allowed.roles)
                    THEN allowed.roles.items ELSE << >>,
          hasUsers |-> ~IsExactlyTrue(allowed.users) /\ IsArray(allowed.users),
          users |-> IF ~IsExactlyTrue(allowed.users) /\ IsArray(allowed.users)
                    THEN allowed.users.items ELSE << >>,
          replied_user |-> allowed.repliedUser]

MentionIdle ==
    /\ mention = NoMentions
    /\ formatted = NotFormatted
    /\ posted = 0

\* Client.createMessage(channelID, {allowedMentions}): the normalizer runs
\* before the request is made, and its throw leaves the function
CreateMessage ==
    \E allowed \in MentionInputs :
        /\ formatted = NotFormatted
        /\ mention' = allowed
        /\ formatted' = FormatAllowedMentions(allowed)
        /\ posted' = IF FormatAllowedMentions(allowed).kind = "threw" THEN posted ELSE posted + 1
        /\ UNCHANGED <<storeVars, reorderVars, purgeVars, deleteVars>>

\* ----------------------------------------------------------- specifications
Init == StoreInit /\ ReorderIdle /\ PurgeIdle /\ DeleteIdle /\ MentionIdle
Next == Add \/ Update \/ Remove \/ Shuffle \/ SwapAt
Spec == Init /\ [][Next]_vars

\* the store driven by add, update and remove only
NextUpsert == Add \/ Update \/ Remove
SpecUpsert == Init /\ [][NextUpsert]_vars

\* the reorderer over every sibling collection within the bounds
InitReorder == StoreIdle /\ ReorderInit /\ PurgeIdle /\ DeleteIdle /\ MentionIdle
NextReorder == EditChannelPosition \/ EditRolePosition
SpecReorder == InitReorder /\ [][NextReorder]_vars

\* one purgeChannel invocation over each of the channel histories
InitPurge == StoreIdle /\ ReorderIdle /\ PurgeInit /\ DeleteIdle /\ MentionIdle
NextPurge ==
    \/ PurgeChannel
    \/ PageFetched
    \/ PageFailed
    \/ CheckToDelete
    \/ DeleteAnswered
    \/ DeleteFailed
SpecPurge == InitPurge /\ [][NextPurge]_vars

\* the same, with a transport that answers every request and an event loop
\* that runs every continuation
PurgeFairness ==
    /\ WF_vars(PageFetched \/ PageFailed)
    /\ WF_vars(CheckToDelete)
    /\ WF_vars(DeleteAnswered \/ DeleteFailed)
SpecPurgeLive == SpecPurge /\ PurgeFairness

\* one direct deleteMessages call with a list of messages of the history
NextDelete == DeleteMessages \/ DeleteRequestAnswered \/ DeleteRequestFailed
SpecDelete == InitPurge /\ [][NextDelete]_vars

\* one createMessage call with each allowedMentions object
InitMention == StoreIdle /\ ReorderIdle /\ PurgeIdle /\ DeleteIdle /\ MentionIdle
NextMention == CreateMessage
SpecMention == InitMention /\ [][NextMention]_vars

\* ------------------------------------------------------------------ claims
Min(a, b) == IF a <= b THEN a ELSE b
\* the k last elements of s, as a set
LastK(s, k) == {s[i] : i \in (Len(s) - k + 1)..Len(s)}
KeysUnique == \A i, j \in DOMAIN store : store[i].key = store[j].key => i = j
\* the iteration order of the keys is the order of their insertion
InsertionOrdered == Keys(store) = SelectSeq(live, LAMBDA k : k \in KeySet(store))

\* C1: on a store of capacity k >= 0, size <= k after every operation; a
\* zero-capacity store stays empty.
C1_SizeWithinCapacity == limit # NoLimit => Len(store) <= limit
\* an add has just evicted and the store is full
C1_Witness == limit >= 1 /\ evict # << >> /\ Len(store) = limit

\* C2 as stated: the stored identifiers are exactly the k (or fewer, if fewer
\* exist) most recently inserted identifiers that were not explicitly
\* removed. Adding a stored identifier again is not counted as an insertion.
C2_RetainsKMostRecent ==
    limit >= 1 => KeySet(store) = LastK(live, Min(limit, Len(live)))
\* C2 amended: size <= k and the stored identifiers are exactly the size most
\* recently inserted identifiers that were not explicitly removed: no evicted
\* identifier is more recent than a stored one, but a remove does not bring an
\* evicted identifier back, so fewer than k may be stored while more exist.
C2_RetainedAreMostRecent ==
    limit >= 1 => /\ Len(store) <= limit
                  /\ KeySet(store) = LastK(live, Len(store))
\* a remove after an eviction: room in the store, an evicted identifier left out
C2_Witness ==
    /\ limit >= 1
    /\ op.name = "remove" /\ op.existed
    /\ Len(store) < limit
    /\ Len(live) > Len(store)

\* C3 as stated: across add, update, remove, shuffle and swapAt keys are
\* unique, insertion order is preserved and the capacity rule evicts the
\* entry whose key was inserted earliest.
C3_EvictionIsInsertionOrder ==
    /\ KeysUnique
    /\ InsertionOrdered
    /\ \A i \in DOMAIN evict : evict[i].key = evict[i].oldest
\* C3 amended: keys are always unique and the capacity rule always evicts the
\* first key of the current iteration order; as long as shuffle has not been
\* called (add, update, remove, swapAt), that order is the insertion order of
\* the keys and the evicted key is the earliest inserted one.
C3_EvictionIsIterationOrder ==
    /\ KeysUnique
    /\ \A i \in DOMAIN evict : evict[i].key = evict[i].first
    /\ ~shuffled => /\ InsertionOrdered
                    /\ \A i \in DOMAIN evict : evict[i].key = evict[i].oldest
\* after a shuffle, an add evicted a key that was not the earliest inserted
C3_Witness == shuffled /\ evict # << >> /\ evict[1].key # evict[1].oldest

\* C4: add(raw, extra, replace=false) on a stored identifier returns the
\* stored entity, constructs nothing and leaves the store as it was (keys,
\* entity per key, order, size).
C4_AddExistingKeepsStore ==
    [][(op'.name = "add" /\ op'.existed /\ ~op'.replace)
        => (store' = store /\ ret' = Returned(Get(store, op'.id), FALSE))]_vars
\* such an add has happened on a non-empty store
C4_Witness ==
    op.name = "add" /\ op.existed /\ ~op.replace /\ ret.kind = "entity" /\ Len(store) >= 1

\* C5: update(raw) on a stored identifier returns the instance that was
\* stored under it before the call and changes neither the keys, their order,
\* the size nor the instance each key maps to.
C5_UpdateExistingKeepsIdentity ==
    [][(op'.name = "update" /\ op'.existed)
        => /\ ret'.kind = "entity"
           /\ ret'.ent.inst = Get(store, op'.id).inst
           /\ Len(store') = Len(store)
           /\ \A i \in DOMAIN store :
                /\ store'[i].key = store[i].key
                /\ store'[i].val.inst = store[i].val.inst]_vars
\* C5 restricted to the identifiers update accepts (every one but the empty
\* string): the only stored identifier C5 fails for is the empty string
C5_HoldsForAcceptedIds ==
    [][(op'.name = "update" /\ op'.existed /\ ~UpdateRejectsId(op'.id))
        => /\ ret'.kind = "entity"
           /\ ret'.ent.inst = Get(store, op'.id).inst
           /\ Len(store') = Len(store)
           /\ \A i \in DOMAIN store :
                /\ store'[i].key = store[i].key
                /\ store'[i].val.inst = store[i].val.inst]_vars

\* C6: for every store state, every capacity and every raw whose identifier
\* is not stored (a raw with no identifier or with the empty string included),
\* update(raw, extra) and add(raw, extra) have the same outcome and leave the
\* same store.
C6_UpdateMissingLikeAdd ==
    \A c \in Calls(store), replace \in BOOLEAN :
        ~Has(store, c[1].ent.id)
            => UpdateResult(store, limit, c[1], c[2], replace)
                 = AddResult(store, limit, c[1], c[2], replace)

\* C7: an add or update of a raw without identifier fails with the
\* missing-identifier error exactly when the capacity is not zero, and leaves
\* the store unchanged.
C7_MissingIdFailsIffBounded ==
    [][(op'.name \in {"add", "update"} /\ op'.id = NoId)
        => /\ (ret'.kind = "MissingId") <=> (limit # 0)
           /\ store' = store]_vars
\* C7 for add alone: the only operation C7 fails for is update
C7_HoldsForAdd ==
    [][(op'.name = "add" /\ op'.id = NoId)
        => /\ (ret'.kind = "MissingId") <=> (limit # 0)
           /\ store' = store]_vars

\* C8: on a store of non-zero capacity, add (and update) of a raw, not yet
\* materialized object whose identifier is not stored materializes an entity
\* and stores it under that identifier, with extra omitted or a single
\* context object.
C8_RawIsMaterializedAndStored ==
    limit # 0 =>
        \A i \in 1..MaxId, extra \in {"undefined", "object"} :
            ~Has(store, i) =>
                LET obj == [isInst |-> FALSE, ent |-> [id |-> i, inst |-> 0, data |-> 0]]
                    a == AddResult(store, limit, obj, extra, FALSE)
                    u == UpdateResult(store, limit, obj, extra, FALSE)
                IN /\ a.ret.kind = "entity" /\ a.ret.made /\ Get(a.store, i) = a.ret.ent
                   /\ u.ret.kind = "entity" /\ u.ret.made /\ Get(u.store, i) = u.ret.ent
\* C8 with extra an iterable: the spread is what fails
C8_HoldsForIterableExtra ==
    limit # 0 =>
        \A i \in 1..MaxId :
            ~Has(store, i) =>
                LET obj == [isInst |-> FALSE, ent |-> [id |-> i, inst |-> 0, data |-> 0]]
                    a == AddResult(store, limit, obj, "array", FALSE)
                    u == UpdateResult(store, limit, obj, "array", FALSE)
                IN /\ a.ret.kind = "entity" /\ a.ret.made /\ Get(a.store, i) = a.ret.ent
                   /\ u.ret.kind = "entity" /\ u.ret.made /\ Get(u.store, i) = u.ret.ent

\* C9: after any sequence of add, update, remove, shuffle and swapAt every key
\* equals the identifier of the entity it maps to, so remove(raw) deletes and
\* returns the stored entity whose identifier is raw's, and returns null and
\* changes nothing when there is none.
C9_KeysAreEntityIds ==
    /\ \A i \in DOMAIN store : store[i].key = store[i].val.id
    /\ op.name = "remove" =>
         IF op.existed
         THEN ret.kind = "entity" /\ ret.ent.id = op.id /\ ~Has(store, op.id)
         ELSE ret.kind = "null"

\* ---- C10
\* the position the sibling collection holds for the entity of the last call
CurrentPosition == sibs[SibIndex(sibs, call.id)].position
CallKnown == Known(sibs, call.id)
IsDefaultRoleCall == call.fn = "editRolePosition" /\ call.id = GuildId
\* the last call found its guild in the cache
CallResolvesGuild ==
    IF call.fn = "editChannelPosition"
    THEN guildCached /\ call.id \in channelGuildMap
    ELSE guildCached

\* C10 (as stated): editChannelPosition and editRolePosition resolve without
\* a request when the requested position equals the entity's current position,
\* reject with a not-found error without a request when the entity is not in
\* the cached sibling collection, and issue a patch request only when the
\* entity is known and the position differs.
C10_NoRequestWhenSameOrUnknown ==
    call.fn # "none" =>
        /\ (CallKnown /\ CurrentPosition = call.position) => res = Resolved
        /\ (guildCached /\ ~CallKnown) => res = Rejected("NotFound")
        /\ res.requests > 0 => (CallKnown /\ CurrentPosition # call.position)

\* C10 (amended): a patch request is issued only when the entity is known, its
\* position differs and it is not the default role. A call for the default
\* role rejects with "Cannot move default role"; any other call throws a
\* TypeError when its guild is not found in the cache, rejects with a
\* not-found error when the guild is found but the entity is not in its
\* sibling collection, and resolves when the position is the current one;
\* none of these submits a request.
C10_NoRequestUnlessKnownAndMoved ==
    call.fn # "none" =>
        /\ res.requests > 0 =>
              (CallKnown /\ CurrentPosition # call.position /\ ~IsDefaultRoleCall)
        /\ IsDefaultRoleCall => res = Rejected("DefaultRole")
        /\ (~IsDefaultRoleCall /\ ~CallResolvesGuild) => res = Threw("TypeError")
        /\ (~IsDefaultRoleCall /\ CallResolvesGuild /\ ~CallKnown) => res = Rejected("NotFound")
        /\ (~IsDefaultRoleCall /\ CallResolvesGuild /\ CallKnown /\ CurrentPosition = call.position)
              => res = Resolved

\* C10 witness: the default role is in the sibling collection of the cached
\* guild and is moved to the position it holds; the call was rejected and
\* nothing was submitted
C10_Witness ==
    /\ IsDefaultRoleCall
    /\ CallKnown
    /\ CurrentPosition = call.position
    /\ Len(sibs) >= 2
    /\ res = Rejected("DefaultRole")

\* C10 as stated does hold of every call that found its guild and is not for
\* the default role
C10_HoldsForResolvedCalls ==
    (call.fn # "none" /\ ~IsDefaultRoleCall /\ CallResolvesGuild) => C10_NoRequestWhenSameOrUnknown

\* ---- C11 .. C14: the submitted patch
\* the entity the last call moves (when it is known)
Moved == sibs[SibIndex(sibs, call.id)]
IsRequested == res.kind = "requested"
\* channels are ordered within their type, roles within the guild
SameCategory(s, t) == call.fn = "editRolePosition" \/ s.type = t.type
RangeMin == MinOf(call.position, CurrentPosition)
RangeMax == MaxOf(call.position, CurrentPosition)
InRange(s) == RangeMin <= s.position /\ s.position <= RangeMax
PatchIds == {res.patch[i].id : i \in DOMAIN res.patch}
PatchPositions == {res.patch[i].position : i \in DOMAIN res.patch}
PatchPos(id) == res.patch[CHOOSE i \in DOMAIN res.patch : res.patch[i].id = id].position
\* the position of a sibling once the submitted patch is applied
NewPosition(s) == IF s.id \in PatchIds THEN PatchPos(s.id) ELSE s.position
SibSet == {sibs[i] : i \in DOMAIN sibs}
\* the siblings of the moved entity's category, the moved one included
CategorySibs == {s \in SibSet : SameCategory(s, Moved)}
\* they hold the distinct contiguous positions 0..n-1
CategoryContiguous ==
    /\ \A s, t \in CategorySibs : s.id # t.id => s.position # t.position
    /\ {s.position : s \in CategorySibs} = 0..(Cardinality(CategorySibs) - 1)

\* C11: for any sibling positions the submitted patch contains exactly the
\* moved entity plus every same-category sibling whose current position lies
\* in [min(current,new), max(current,new)], each exactly once; no sibling
\* outside that range and no sibling of another category appears in it.
C11_PatchIsCategoryRange ==
    IsRequested =>
        /\ Cardinality(PatchIds) = Len(res.patch)
        /\ PatchIds = {s.id : s \in {t \in CategorySibs : InRange(t)}}
        /\ call.id \in PatchIds

\* C11 witness: a channel move was submitted while the guild holds a channel
\* of the same type inside the range, one of the same type outside it and one
\* of another type inside it
C11_Witness ==
    /\ IsRequested
    /\ call.fn = "editChannelPosition"
    /\ \E s \in SibSet : s.id # call.id /\ s.type = Moved.type /\ InRange(s)
    /\ \E s \in SibSet : s.type = Moved.type /\ ~InRange(s)
    /\ \E s \in SibSet : s.type # Moved.type /\ InRange(s)

\* C12: when the siblings hold the distinct contiguous positions 0..n-1 and
\* X is moved from p to another of these positions q, the patch puts X at q,
\* shifts every other sibling originally in [min(p,q), max(p,q)] by exactly
\* one step toward p and leaves every sibling outside that range untouched.
C12_ContiguousMoveShiftsByOne ==
    (IsRequested /\ CategoryContiguous /\ call.position < Cardinality(CategorySibs)) =>
        /\ NewPosition(Moved) = call.position
        /\ \A s \in CategorySibs : (s.id # call.id /\ InRange(s)) =>
              NewPosition(s) = s.position + (IF CurrentPosition < call.position THEN -1 ELSE 1)
        /\ \A s \in SibSet : ~(SameCategory(s, Moved) /\ InRange(s)) => s.id \notin PatchIds

\* C12 witness: three siblings of one category at 0, 1, 2 beside an entity
\* of another category, and the one at an end was moved to the other end
C12_Witness ==
    /\ IsRequested
    /\ CategoryContiguous
    /\ Cardinality(CategorySibs) >= 3
    /\ call.position < Cardinality(CategorySibs)
    /\ Cardinality(SibSet) > Cardinality(CategorySibs)
    /\ RangeMax - RangeMin >= 2
    /\ Len(res.patch) >= 3

\* C13: for any starting positions a reordering assigns the patched siblings
\* pairwise-distinct contiguous positions, and once the patch is applied no
\* patched sibling shares a position with any other sibling of the same
\* category, patched or not.
C13_NoDuplicatePositionsAfterPatch ==
    IsRequested =>
        /\ Cardinality(PatchPositions) = Len(res.patch)
        /\ PatchPositions = RangeMin..(RangeMin + Len(res.patch) - 1)
        /\ \A s, t \in CategorySibs :
              (s.id \in PatchIds /\ t.id # s.id) => NewPosition(s) # NewPosition(t)

\* the first half of C13 does hold: the patched positions are pairwise
\* distinct and contiguous from the lower end of the range
C13_PatchedAreDistinctContiguous ==
    IsRequested =>
        /\ Cardinality(PatchPositions) = Len(res.patch)
        /\ PatchPositions = RangeMin..(RangeMin + Len(res.patch) - 1)

\* C14: for any sibling positions and either direction of movement the
\* position the submitted patch assigns to the moved channel or role equals
\* the position argument of the call.
C14_MovedGetsRequestedPosition ==
    IsRequested => PatchPos(call.id) = call.position

\* C14 does hold when the range holds exactly one other sibling of the
\* category per position
C14_HoldsWhenRangeIsFull ==
    (IsRequested /\ Cardinality({s \in CategorySibs : InRange(s)}) = RangeMax - RangeMin + 1)
        => PatchPos(call.id) = call.position

\* ---- C15 .. C20: the purge pipeline
IsGet(e) == e.type = "GET"
IsDelete(e) == e.type \in {"BULK", "DELETE"}
IsWait(e) == e.type = "sleep"
\* the delete requests of the log, in order
Deletes == SelectSeq(log, IsDelete)
DeleteSizes == [i \in DOMAIN Deletes |-> Deletes[i].n]
\* the identifiers the delete requests carried, in order
RECURSIVE Flatten(_)
Flatten(reqs) == IF reqs = << >> THEN << >> ELSE Head(reqs).ids \o Flatten(Tail(reqs))
Submitted == Flatten(Deletes)
NumGets == Len(SelectSeq(log, IsGet))

\* C15: draining runs concurrently with scanning: whenever the buffer has
\* reached 100 identifiers while the scan still has pages to fetch, a delete
\* batch is submitted before the scan's last page fetch.
C15_DrainsBeforeScanEnds ==
    (pc = "done" /\ \E j \in DOMAIN log : IsGet(log[j]) /\ log[j].n >= DrainSize) =>
        \E i, j \in DOMAIN log : i < j /\ IsDelete(log[i]) /\ IsGet(log[j])

\* what the code does instead: no delete request is ever submitted before a
\* page fetch, and checkToDelete never waits
C15_DrainsOnlyAfterScan ==
    /\ \A i, j \in DOMAIN log : (IsDelete(log[i]) /\ IsGet(log[j])) => j < i
    /\ \A i \in DOMAIN log : ~IsWait(log[i])
    /\ pc \notin {"waitDrain", "waitPoll"}

\* C16: each drained batch holds at most 100 identifiers and is one
\* bulk-delete request, and between any two consecutive delete submissions
\* the pipeline performs the fixed wait; two batches are never submitted back
\* to back.
C16_BatchesBoundedAndPaced ==
    /\ \A i \in DOMAIN log : IsDelete(log[i]) => log[i].n <= BatchSize
    /\ \A i, j \in DOMAIN log :
          (i < j /\ IsDelete(log[i]) /\ IsDelete(log[j])) =>
              \E k \in (i + 1)..(j - 1) : IsWait(log[k]) /\ log[k].n = DrainWait

\* the size half of C16 does hold
C16_BatchesAreBounded ==
    \A i \in DOMAIN log : IsDelete(log[i]) => (log[i].n >= 1 /\ log[i].n <= BatchSize)

\* C17: a purge with limit -1 and no filter over 250 messages younger than
\* the cutoff performs exactly 3 page fetches that accumulate 100, 100 and 50
\* identifiers, submits exactly 3 bulk-delete requests of sizes 100, 100 and
\* 50 and resolves with 250.
Is250Purge ==
    /\ history = [fresh |-> 250, border |-> 0, old |-> 0]
    /\ purgeCall = [limit |-> Unlimited, filter |-> "none"]
C17_Purge250InThreeBatches ==
    Is250Purge =>
        /\ Len(pages) <= 3
        /\ NumGets <= 3
        /\ purgeRes.kind = "rejected" => purgeRes.err \in TransportErrors
        /\ pc \in {"check", "deleting", "done"} =>
              /\ NumGets = 3
              /\ pages = <<[returned |-> 100, pushed |-> 100],
                           [returned |-> 100, pushed |-> 100],
                           [returned |-> 50, pushed |-> 50]>>
        /\ pc = "done" =>
              /\ DeleteSizes = <<100, 100, 50>>
              /\ \A i \in DOMAIN Deletes : Deletes[i].type = "BULK"
              /\ purgeRes = PurgeResolved(250)

\* C17 witness: that purge has resolved
C17_Witness == Is250Purge /\ pc = "done" /\ purgeRes.kind = "resolved" /\ Len(Deletes) = 3

\* C18: a purge whose filter accepts none of the 500 messages of a history
\* (all younger than the cutoff, limit -1) scans every page, issues zero
\* delete requests of either kind and resolves with 0.
Is500PurgeOfNothing ==
    /\ history = [fresh |-> 500, border |-> 0, old |-> 0]
    /\ purgeCall = [limit |-> Unlimited, filter |-> "rejectAll"]
C18_RejectingFilterScansAll ==
    Is500PurgeOfNothing =>
        /\ Deletes = << >>
        /\ purgeRes.kind = "rejected" => purgeRes.err \in TransportErrors
        /\ pc \in {"check", "done"} =>
              /\ examined = 500
              /\ cursor = 500
        /\ pc = "done" => purgeRes = PurgeResolved(0)

\* C18 witness: that purge has resolved after examining all 500 messages
C18_Witness == Is500PurgeOfNothing /\ pc = "done" /\ examined = 500 /\ purgeRes.kind = "resolved"

\* C19: when a purge resolves, the returned count equals the number of
\* identifiers the scan accepted and the number carried by the delete
\* requests; every accepted identifier is carried by exactly one delete
\* request, none twice and none left out.
C19_CountIsAcceptedIsSubmitted ==
    purgeRes.kind = "resolved" =>
        /\ purgeRes.value = Len(accepted)
        /\ Submitted = accepted
        /\ \A i, j \in DOMAIN accepted : i < j => accepted[i] < accepted[j]

\* C19 witness: a purge with a filter has resolved after more than one batch
C19_Witness ==
    /\ purgeRes.kind = "resolved"
    /\ purgeCall.filter = "odd"
    /\ Len(accepted) > BatchSize
    /\ Len(Deletes) >= 2
    /\ examined > Len(accepted)

\* C20: once the scan meets a message older than the cutoff it terminates:
\* that message and every one after it are never pushed, no further page is
\* fetched, and the identifiers accepted before it are still handed to the
\* delete step.
C20_CutoffEndsScan ==
    cutoffAt # 0 =>
        /\ \A i \in DOMAIN accepted : accepted[i] < cutoffAt
        /\ pc # "fetching"
        /\ NumGets = Len(pages)
        /\ Len(pages) = ((cutoffAt - 1) \div PageSize) + 1
        /\ pc \in {"deleting", "done", "failed"} => deleted = Len(accepted)
        /\ pc = "done" => Submitted = accepted

\* C20 witness: the cutoff was met in a full page with messages after it, and
\* the identifiers accepted before it were deleted
C20_Witness ==
    /\ cutoffAt # 0
    /\ cutoffAt < HistoryLen(history)
    /\ pages[Len(pages)].returned = PageSize
    /\ pc = "done"
    /\ Len(accepted) >= 2
    /\ Submitted = accepted

\* ---- C21, C22, C30: deleteMessages called directly
DeleteCalled == pc \in {"sending", "settled"}
\* the given list holds an identifier older than the cutoff when the call starts
GivenHasOld == \E i \in DOMAIN given : TooOld(history, given[i], 0)

\* C21: every request deleteMessages sends to the bulk-delete route carries
\* between 2 and 100 identifiers; a list, or the remaining tail of a longer
\* list, of exactly one identifier goes through the single-delete route, and
\* an empty list sends no request.
C21_BulkCarriesTwoToHundred ==
    DeleteCalled =>
        /\ \A i \in DOMAIN log : log[i].type = "BULK" => (log[i].n >= 2 /\ log[i].n <= BatchSize)
        /\ \A i \in DOMAIN log : log[i].type = "DELETE" => log[i].n = 1
        /\ given = << >> => (log = << >> /\ delRes = DelResolved)
        /\ Len(given) = 1 => (Len(log) >= 1 /\ log[1] = DeleteEvent("single", given))
        /\ (delRes = DelResolved /\ Len(given) % BatchSize = 1) =>
              Deletes[Len(Deletes)] = DeleteEvent("single", <<given[Len(given)]>>)
        /\ delRes = DelResolved => Submitted = given

\* C21 witness: a list of 201 identifiers went out as two bulk requests and
\* one single delete
C21_Witness ==
    /\ DeleteCalled
    /\ Len(given) = 201
    /\ delRes = DelResolved
    /\ Len(Deletes) = 3
    /\ Deletes[3].type = "DELETE"

\* C22 (as stated): deleteMessages called with any non-empty list holding an
\* identifier older than the cutoff rejects with a staleness error before any
\* request is made.
C22_StaleListRejectedUnsent ==
    (DeleteCalled /\ given # << >> /\ GivenHasOld) =>
        (delRes = DelRejected("stale") /\ log = << >>)

\* C22 (amended): deleteMessages called with a list of two or more
\* identifiers, one of them older than the cutoff, rejects with a staleness
\* error before any request is made; a list of exactly one identifier is sent
\* through the single-delete route without that check, however old it is.
C22_StaleListOfSeveralRejectedUnsent ==
    (DeleteCalled /\ GivenHasOld) =>
        IF Len(given) >= 2
        THEN delRes = DelRejected("stale") /\ log = << >>
        ELSE /\ log[1] = DeleteEvent("single", given)
             /\ delRes # DelRejected("stale")

\* C22 witness: a list of more than 100 identifiers whose only old one lies
\* beyond the first batch was rejected with nothing sent
C22_Witness ==
    /\ DeleteCalled
    /\ Len(given) > BatchSize
    /\ GivenHasOld
    /\ \A i \in 1..BatchSize : ~TooOld(history, given[i], MaxClock)
    /\ delRes = DelRejected("stale")
    /\ log = << >>

\* C30: deleteMessages leaves the caller's identifier list unchanged, for
\* every list length.
C30_ListUnchanged == DeleteCalled => messageIDs = given

\* C30 does hold of the lists that go out in one request
C30_HoldsUpToOneBatch == (DeleteCalled /\ Len(given) <= BatchSize) => messageIDs = given

\* ---- C23, C26, C27, C28: the purge pipeline
IsReject(e) == e.type \in TransportErrors

\* C23: if a page fetch or a delete request of a purge is rejected by the
\* transport, purgeChannel rejects with that same error, issues no further
\* request afterwards and does not report the count already deleted.
C23_TransportErrorPropagates ==
    \A i \in DOMAIN log :
        IsReject(log[i]) =>
            /\ i = Len(log)
            /\ pc = "failed"
            /\ purgeRes = PurgeRejected(log[i].type)

\* C23 witness: the second bulk delete of a purge was rejected after the
\* first had deleted 100 messages
C23_Witness ==
    /\ pc = "failed"
    /\ Len(log) >= 2
    /\ IsReject(log[Len(log)])
    /\ Len(Deletes) = 2
    /\ deleted > BatchSize

\* C26: for a purge with limit n >= 1 at most n messages are examined
\* against the filter, no further page is fetched once n were examined, the
\* resolved count is at most n, and messages the filter rejects count against
\* the limit.
C26_LimitBoundsScan ==
    (pc # "idle" /\ purgeCall.limit >= 1) =>
        /\ examined <= purgeCall.limit
        /\ purgeLimit = purgeCall.limit - examined
        /\ examined = purgeCall.limit => (pc # "fetching" /\ NumGets = Len(pages))
        /\ Len(accepted) <= examined
        /\ purgeRes.kind = "resolved" => purgeRes.value <= purgeCall.limit

\* C26 witness: a limited purge over a longer history with a filter that
\* rejects some messages stopped at the limit, in the middle of a page
C26_Witness ==
    /\ pc = "done"
    /\ purgeCall.limit = 150
    /\ purgeCall.filter = "odd"
    /\ HistoryLen(history) > 200
    /\ examined = 150
    /\ Len(pages) = 2
    /\ purgeRes.value = 75

Settled == pc \in {"done", "failed"}
\* C27: for every finite history, limit and filter, if the transport answers
\* every request then purgeChannel eventually resolves or rejects.
C27_PurgeTerminates == (pc # "idle") ~> Settled

\* C27 witness: a purge over the longest history has resolved after six
\* page fetches and five batches
C27_Witness ==
    /\ pc = "done"
    /\ Len(pages) = 6
    /\ Len(Deletes) = 5

\* C28: an identifier the scan accepted as younger than the cutoff is never
\* rejected as too old by the delete step: the purge does not fail with a
\* staleness error on its own accumulated identifiers.
C28_NoStalenessOnAccepted == purgeRes # PurgeRejected("stale")

\* C28 does hold when no time passes during the purge
C28_HoldsWhileClockStands == now = 0 => purgeRes # PurgeRejected("stale")

\* ---- C29: the default role
\* C29: editRolePosition never submits a patch that contains the guild's
\* default role, whichever other role is moved and to whichever position.
C29_PatchOmitsDefaultRole ==
    (call.fn = "editRolePosition" /\ IsRequested) => GuildId \notin PatchIds

\* C29 does hold when the default role lies outside the range of the move
C29_HoldsOutsideRange ==
    (call.fn = "editRolePosition" /\ IsRequested /\ GuildId \in PatchIds) =>
        \E s \in SibSet : s.id = GuildId /\ InRange(s)

\* ---- C24, C25: the allowed-mentions normalizer
InParse(name) == \E i \in DOMAIN formatted.parse : formatted.parse[i] = name
ListTooLong(v) == IsArray(v) /\ Len(v.items) > MentionLimit

\* C24: for every input given, the structure the normalizer returns has a
\* parse list; parse contains "everyone" iff everyone is truthy, "roles"
\* (resp. "users") iff roles (resp. users) is exactly true, and the structure
\* carries an explicit roles (resp. users) list iff an array was given; it
\* never has both "roles" in parse and a roles list (same for users).
\* {roles: [1,2,3], everyone: true} gives parse ["everyone"] with roles
\* [1,2,3]; {roles: true} gives parse ["roles"] with no roles list.
C24_ParseAndListsFollowInput ==
    /\ (formatted # NotFormatted /\ mention # NoMentions
            /\ ~ListTooLong(mention.roles) /\ ~ListTooLong(mention.users))
          => formatted.kind = "returned"
    /\ formatted.kind = "returned" =>
          /\ InParse("everyone") <=> Truthy(mention.everyone)
          /\ InParse("roles") <=> mention.roles.tag = "true"
          /\ InParse("users") <=> mention.users.tag = "true"
          /\ formatted.hasRoles <=> mention.roles.tag = "array"
          /\ formatted.hasUsers <=> mention.users.tag = "array"
          /\ formatted.hasRoles => formatted.roles = mention.roles.items
          /\ formatted.hasUsers => formatted.users = mention.users.items
          /\ ~(InParse("roles") /\ formatted.hasRoles)
          /\ ~(InParse("users") /\ formatted.hasUsers)
          /\ \A i, j \in DOMAIN formatted.parse : i # j => formatted.parse[i] # formatted.parse[j]
    /\ (formatted.kind = "returned" /\ mention.everyone = "true"
            /\ mention.roles = ArrayOf(3) /\ mention.users = Scalar("undefined"))
          => (formatted.parse = <<"everyone">> /\ formatted.roles = <<1, 2, 3>>)
    /\ (formatted.kind = "returned" /\ mention.everyone = "undefined"
            /\ mention.roles = Scalar("true") /\ mention.users = Scalar("undefined"))
          => (formatted.parse = <<"roles">> /\ ~formatted.hasRoles)

\* C24 witness: {roles: [1,2,3], everyone: true} was normalized
C24_Witness ==
    /\ formatted.kind = "returned"
    /\ mention.everyone = "true"
    /\ mention.roles = ArrayOf(3)
    /\ formatted.parse = <<"everyone">>
    /\ formatted.roles = <<1, 2, 3>>

\* C25: the normalizer fails with a validation error exactly when an explicit
\* roles list or users list has more than 100 entries: a list of exactly 100
\* is accepted, one of 101 is rejected, and the calling mutation sends no
\* request when it fails.
C25_FailsIffListExceeds100 ==
    formatted # NotFormatted =>
        /\ formatted.kind = "threw" <=> (ListTooLong(mention.roles) \/ ListTooLong(mention.users))
        /\ formatted.kind = "threw" => posted = 0
        /\ formatted.kind # "threw" => posted = 1
        /\ (mention.roles = ArrayOf(MentionLimit) /\ ~ListTooLong(mention.users))
              => (formatted.kind = "returned" /\ Len(formatted.roles) = MentionLimit)

\* C25 witness: a users list of 101 entries beside a roles list of 100 made
\* the call fail with nothing sent
C25_Witness ==
    /\ formatted.kind = "threw"
    /\ mention.roles = ArrayOf(100)
    /\ mention.users = ArrayOf(101)
    /\ posted = 0

====
